---- MODULE Spec2Model ----
(***************************************************************************)
(* Model of the batch image-transform pipeline of artful-editor-hub:       *)
(* the BatchProcessor dialog (src/src/components/batch/BatchProcessor.tsx). *)
(*                                                                         *)
(* React state (options, processing, progress, currentPhoto) is shared by  *)
(* every invocation of startBatchProcessing; the locals of an invocation   *)
(* (i, zip, processedPhotos, the options captured by the closure) live in  *)
(* one slot of `run`.  An await is a point where other handlers may run,   *)
(* so every action below goes from one await to the next.                  *)
(*                                                                         *)
(* Spec is the dialog used with its options left at the defaults; SpecEdit *)
(* adds the option controls (on shorter photo lists).                      *)
(***************************************************************************)
EXTENDS Integers, Sequences, FiniteSets, TLC

(* ------------------------------ bounds -------------------------------- *)
MaxPhotos == 5          \* longest photo list handed to the dialog
MaxRuns   == 2          \* invocation slots (concurrent startBatchProcessing calls)
MaxEdits  == 2          \* option edits the user makes in one behaviour
MaxEditPhotos == 2      \* longest photo list in the behaviours with option edits
MaxToneEdits == 3      \* moves of the tone sliders and preset clicks
MaxFairPhotos == 2     \* longest photo list in the behaviours checked for progress
MaxGallery == 3        \* photos fetched into the gallery
MaxPending == 1        \* handleDelete calls awaiting the server at once
MaxFiles == 2          \* files waiting in the upload list
MaxStored == 3         \* objects the storage bucket takes in one behaviour

Titles    == {"a", "b"}                     \* photo.title values
RunIds    == 1..MaxRuns
Formats   == {"png", "jpeg", "webp"}
WidthTexts == {"", "0", "4"}                \* texts typed in the width/height inputs
NaturalSizes == {<<4, 2>>, <<2, 4>>, <<2, 2>>}  \* img.naturalWidth, img.naturalHeight

(* ------------------------- JavaScript numbers -------------------------- *)
\* A JS number is NaN or an exact rational n/d (d > 0).
NaN == [nan |-> TRUE, n |-> 0, d |-> 1]

Num(k) == [nan |-> FALSE, n |-> k, d |-> 1]

\* a / b  (b a rational different from 0, or NaN)
Div(a, b) ==
    IF a.nan \/ b.nan \/ b.n = 0 THEN NaN
    ELSE [nan |-> FALSE, n |-> a.n * b.d, d |-> a.d * b.n]

\* a * b
Mul(a, b) ==
    IF a.nan \/ b.nan THEN NaN
    ELSE [nan |-> FALSE, n |-> a.n * b.n, d |-> a.d * b.d]

\* parseInt(e.target.value) of the number inputs
ParseInt(text) ==
    CASE text = ""  -> NaN
      [] text = "0" -> Num(0)
      [] text = "4" -> Num(4)

\* canvas.width = x : the IDL attribute is an unsigned long, NaN becomes 0
\* and a non-negative number is truncated
CanvasDim(x) == IF x.nan THEN 0 ELSE x.n \div x.d

(* ------------------------------ options -------------------------------- *)
defaultOptions ==
    [ enabled |-> FALSE, width |-> Num(1920), height |-> Num(1080),
      maintainAspectRatio |-> TRUE,
      filters |-> [brightness |-> 0, contrast |-> 0, saturation |-> 0, blur |-> 0],
      format |-> "jpeg", quality |-> 90 ]

\* mutant of Dimensions: the locked axis is the other one
DimensionsSwapped(nw, nh, o) ==
    IF o.enabled
    THEN IF o.maintainAspectRatio
         THEN LET aspectRatio == Div(Num(nw), Num(nh))
              IN  IF nw > nh
                  THEN <<Mul(o.height, aspectRatio), o.height>>
                  ELSE <<o.width, Div(o.width, aspectRatio)>>
         ELSE <<o.width, o.height>>
    ELSE <<Num(nw), Num(nh)>>

\* mutant of Dimensions: `width >= height`, a square locks its width
DimensionsSquareLandscape(nw, nh, o) ==
    IF o.enabled
    THEN IF o.maintainAspectRatio
         THEN LET aspectRatio == Div(Num(nw), Num(nh))
              IN  IF nw >= nh
                  THEN <<o.width, Div(o.width, aspectRatio)>>
                  ELSE <<Mul(o.height, aspectRatio), o.height>>
         ELSE <<o.width, o.height>>
    ELSE <<Num(nw), Num(nh)>>

\* mutant of Dimensions: the enabled flag is not read
DimensionsAlways(nw, nh, o) ==
    IF o.maintainAspectRatio
    THEN LET aspectRatio == Div(Num(nw), Num(nh))
         IN  IF nw > nh
             THEN <<o.width, Div(o.width, aspectRatio)>>
             ELSE <<Mul(o.height, aspectRatio), o.height>>
    ELSE <<o.width, o.height>>

\* mutant of Dimensions: the aspect ratio is kept whatever the checkbox
DimensionsKeepAspect(nw, nh, o) ==
    IF o.enabled
    THEN LET aspectRatio == Div(Num(nw), Num(nh))
         IN  IF nw > nh
             THEN <<o.width, Div(o.width, aspectRatio)>>
             ELSE <<Mul(o.height, aspectRatio), o.height>>
    ELSE <<Num(nw), Num(nh)>>

\* the dimension computation of img.onload: the pair <<width, height>>
Dimensions(nw, nh, o) ==
    IF o.enabled
    THEN IF o.maintainAspectRatio
         THEN LET aspectRatio == Div(Num(nw), Num(nh))
              IN  IF nw > nh
                  THEN <<o.width, Div(o.width, aspectRatio)>>
                  ELSE <<Mul(o.height, aspectRatio), o.height>>
         ELSE <<o.width, o.height>>
    ELSE <<Num(nw), Num(nh)>>

\* the canvas the image is drawn on
Canvas(nw, nh, o) ==
    LET dim == Dimensions(nw, nh, o)
    IN  [w |-> CanvasDim(dim[1]), h |-> CanvasDim(dim[2])]

NoCanvas == [w |-> 0, h |-> 0]

\* `${photo.title}.${options.format}`
FileName(title, o) == [title |-> title, ext |-> o.format]

\* ctx.filter: the four filter functions of the template string, in its order
FilterString(o) ==
    << [fn |-> "brightness", arg |-> 100 + o.filters.brightness],
       [fn |-> "contrast",   arg |-> 100 + o.filters.contrast],
       [fn |-> "saturate",   arg |-> 100 + o.filters.saturation],
       [fn |-> "blur",       arg |-> o.filters.blur] >>

\* mutant of ToBlobArgs: the quality goes to the lossy encoders only
ToBlobArgsLossy(o) ==
    [ type |-> <<"image", o.format>>,
      quality |-> IF o.format = "png"
                  THEN [passed |-> FALSE, value |-> NaN]
                  ELSE [passed |-> TRUE, value |-> Div(Num(o.quality), Num(100))] ]

\* canvas.toBlob(callback, `image/${options.format}`, options.quality / 100)
ToBlobArgs(o) ==
    [ type |-> <<"image", o.format>>,
      quality |-> [passed |-> TRUE, value |-> Div(Num(o.quality), Num(100))] ]

\* what img.onload sets apart from the canvas size
Encode(o) == [filter |-> FilterString(o), toBlob |-> ToBlobArgs(o)]

\* no img.onload has run for the item
NoEncode ==
    [filter |-> <<>>,
     toBlob |-> [type |-> <<>>, quality |-> [passed |-> FALSE, value |-> NaN]]]

\* img.onload as a whole: canvas size, ctx.filter, drawImage, canvas.toBlob
OnLoad(nw, nh, o) ==
    [ done |-> TRUE,
      canvas |-> Canvas(nw, nh, o),
      filter |-> FilterString(o),
      toBlob |-> ToBlobArgs(o) ]

(* ------------------------- the photo editor --------------------------- *)
\* a decimal literal or quotient as a JS number
Frac(n, d) == [nan |-> FALSE, n |-> n, d |-> d]

EditorFilters(b, c, s, bl, se, g) ==
    [brightness |-> b, contrast |-> c, saturation |-> s, blur |-> bl,
     sepia |-> se, grayscale |-> g]

\* Original, Bright, Vintage, B&W, Sepia, Soft
filterPresets ==
    << [name |-> "Original", filters |-> EditorFilters(Num(0), Num(0), Num(0), Num(0), Num(0), Num(0))],
       [name |-> "Bright", filters |-> EditorFilters(Frac(2, 10), Frac(1, 10), Frac(1, 10), Num(0), Num(0), Num(0))],
       [name |-> "Vintage", filters |-> EditorFilters(Frac(1, 10), Frac(-1, 10), Frac(-2, 10), Num(0), Frac(3, 10), Num(0))],
       [name |-> "B&W", filters |-> EditorFilters(Num(0), Frac(1, 10), Num(0), Num(0), Num(0), Num(1))],
       [name |-> "Sepia", filters |-> EditorFilters(Frac(1, 10), Num(0), Frac(-1, 10), Num(0), Frac(8, 10), Num(0))],
       [name |-> "Soft", filters |-> EditorFilters(Frac(1, 10), Frac(-1, 10), Frac(1, 10), Num(1), Num(0), Num(0))] >>

\* no image on the fabric canvas yet
NoOriginal == [loaded |-> FALSE, filters |-> <<>>]

\* no single onload under way
NoImage == [w |-> 0, h |-> 0]

NotDrawn == [done |-> FALSE]

\* no tone slider of the editor moved since the last preset
NoSlider == [name |-> "none", value |-> 0]

\* the value prop of an editor slider: `activeFilters.blur * 10` for the
\* blur, `activeFilters.<name> * 100` for the others
Display(name, f) ==
    IF name = "blur" THEN Mul(f.blur, Num(10)) ELSE Mul(f[name], Num(100))

\* one entry of originalImage.filters: the fabric filter class and its options
Filter(kind, params) == [kind |-> kind, params |-> params]

\* x !== 0 and x > 0 on JS numbers (denominators are positive)
NonZero(x) == x.nan \/ x.n # 0
Positive(x) == ~x.nan /\ x.n > 0

\* mutant of FilterList: the brightness is pushed whatever its value
FilterListBrightnessAlways(f) ==
    <<Filter("Brightness", <<f.brightness>>)>>
    \o (IF NonZero(f.contrast) THEN <<Filter("Contrast", <<f.contrast>>)>> ELSE <<>>)
    \o (IF NonZero(f.saturation) THEN <<Filter("Saturation", <<f.saturation>>)>> ELSE <<>>)
    \o (IF Positive(f.blur) THEN <<Filter("Blur", <<Div(f.blur, Num(10))>>)>> ELSE <<>>)
    \o (IF Positive(f.sepia) THEN <<Filter("Sepia", <<>>)>> ELSE <<>>)
    \o (IF Positive(f.grayscale) THEN <<Filter("Grayscale", <<>>)>> ELSE <<>>)

\* mutant of FilterList: the blur is pushed first
FilterListBlurFirst(f) ==
    (IF Positive(f.blur) THEN <<Filter("Blur", <<Div(f.blur, Num(10))>>)>> ELSE <<>>)
    \o (IF NonZero(f.brightness) THEN <<Filter("Brightness", <<f.brightness>>)>> ELSE <<>>)
    \o (IF NonZero(f.contrast) THEN <<Filter("Contrast", <<f.contrast>>)>> ELSE <<>>)
    \o (IF NonZero(f.saturation) THEN <<Filter("Saturation", <<f.saturation>>)>> ELSE <<>>)
    \o (IF Positive(f.sepia) THEN <<Filter("Sepia", <<>>)>> ELSE <<>>)
    \o (IF Positive(f.grayscale) THEN <<Filter("Grayscale", <<>>)>> ELSE <<>>)

\* the local `filters` array of applyFilters, push by push
FilterList(f) ==
    (IF NonZero(f.brightness) THEN <<Filter("Brightness", <<f.brightness>>)>> ELSE <<>>)
    \o (IF NonZero(f.contrast) THEN <<Filter("Contrast", <<f.contrast>>)>> ELSE <<>>)
    \o (IF NonZero(f.saturation) THEN <<Filter("Saturation", <<f.saturation>>)>> ELSE <<>>)
    \o (IF Positive(f.blur) THEN <<Filter("Blur", <<Div(f.blur, Num(10))>>)>> ELSE <<>>)
    \o (IF Positive(f.sepia) THEN <<Filter("Sepia", <<>>)>> ELSE <<>>)
    \o (IF Positive(f.grayscale) THEN <<Filter("Grayscale", <<>>)>> ELSE <<>>)

\* applyFilters, run by the effect on [activeFilters, originalImage, fabricCanvas]
applyFilters(f, image) ==
    IF ~image.loaded THEN image
    ELSE [image EXCEPT !.filters = FilterList(f)]

(* ------------------------------- state --------------------------------- *)
VARIABLES
    photos,         \* props.photos: the list handed to the dialog
    open,           \* props.open (Gallery's showBatchProcessor)
    options,        \* useState(defaultOptions)
    edits,          \* number of option edits made so far
    processing,     \* useState(false)
    progress,       \* useState(0): a percentage, kept as the exact fraction n/d
    currentPhoto,   \* useState('')
    run,            \* the locals of each startBatchProcessing invocation
    lastClick,      \* what the last click on Start Processing did
    img,            \* the image of a single img.onload: its natural size
    drawn,          \* what that img.onload did: canvas, ctx.filter, toBlob arguments
    activeFilters,  \* PhotoEditor: useState(filterPresets[0].filters)
    originalImage,  \* PhotoEditor: the fabric image and its filters list
    slider,         \* PhotoEditor: the tone slider moved last and the value it sent
    gallery,        \* Gallery: useState<Photo[]>, in display order
    selectedPhotos, \* Gallery: useState<string[]>, the selected ids
    searchTerm,     \* PhotoGrid: useState('')
    deleting,       \* PhotoGrid: the handleDelete calls awaiting the server
    selectedFiles,  \* PhotoUpload: useState<File[]>
    uploading,      \* PhotoUpload: useState(false)
    uploadProgress, \* PhotoUpload: useState(0), a percentage kept as n/d
    upload,         \* the locals of the uploadFiles invocation
    db              \* the server: storage objects and rows of table photos

\* the state outside the batch dialog
\* the state of the gallery and upload pages
pages == <<gallery, selectedPhotos, searchTerm, deleting, selectedFiles,
           uploading, uploadProgress, upload, db>>

others == <<img, drawn, activeFilters, originalImage, slider, pages>>

vars == <<photos, open, options, edits, processing, progress, currentPhoto,
          run, lastClick, img, drawn, activeFilters, originalImage, slider, pages>>

NoProgress == [n |-> 0, d |-> 1]

\* the server before any upload
NoRows == [stored |-> <<>>, rows |-> <<>>]

\* no uploadFiles call yet
IdleUpload ==
    [ pc |-> "idle",            \* idle | store | insert | done
      i |-> 0,                  \* files handled so far (the loop index)
      files |-> <<>>,           \* selectedFiles as captured by the closure
      uploadedPhotos |-> <<>>,  \* the rows returned by the inserts
      toasts |-> <<>>,          \* toast.success / toast.error calls
      completed |-> <<>> ]      \* arguments of the onUploadComplete calls

\* the gallery and upload pages untouched: nothing fetched, selected or dropped
PagesIdle ==
    /\ gallery = <<>>
    /\ selectedPhotos = <<>>
    /\ searchTerm = ""
    /\ deleting = {}
    /\ selectedFiles = <<>>
    /\ uploading = FALSE
    /\ uploadProgress = NoProgress
    /\ upload = IdleUpload
    /\ db = NoRows

IdleRun ==
    [ pc |-> "idle",            \* idle | ctx | load | encode | zip | done
      i |-> 0,                  \* items settled so far (the loop index)
      opts |-> defaultOptions,  \* the options captured by the closure
      attempts |-> <<>>,        \* indices processImage was called for, in order
      canvas |-> NoCanvas,      \* canvas of the item in flight
      encode |-> NoEncode,      \* ctx.filter and toBlob arguments of the item in flight
      processedPhotos |-> <<>>, \* {name, blob}; a blob is named by its source index
      zip |-> <<>>,             \* JSZip entries, in the order generateAsync emits them
      toasts |-> <<>>,          \* toast.error / toast.success calls of this invocation
      saved |-> <<>>,           \* archives handed to saveAs
      threw |-> FALSE,          \* the outer catch ran
      notifyThrew |-> FALSE,    \* a toast / setState call of the loop threw
      closedAt |-> -1 ]         \* items started when the dialog was first closed

Active(r) == run[r].pc \in {"ctx", "load", "encode", "zip"}

PhotoLists == UNION {[1..n -> Titles] : n \in 0..MaxPhotos}

Init ==
    /\ photos \in PhotoLists
    /\ open = FALSE
    /\ options = defaultOptions
    /\ edits = 0
    /\ processing = FALSE
    /\ progress = NoProgress
    /\ currentPhoto = ""
    /\ run = [r \in RunIds |-> IdleRun]
    /\ lastClick = "none"
    /\ img = NoImage
    /\ drawn = NotDrawn
    /\ activeFilters = filterPresets[1].filters
    /\ originalImage = NoOriginal
    /\ slider = NoSlider
    /\ PagesIdle


(* ------------------------- helpers of the run -------------------------- *)
Toast(kind, title, count) == [kind |-> kind, title |-> title, count |-> count]

\* mutant of ZipFile: every call adds an entry, also under a name already there
ZipFileAppend(zip, name, blob) == Append(zip, [name |-> name, blob |-> blob])

\* mutant of ZipFile: a name already in the archive keeps its first blob
ZipFileKeepFirst(zip, name, blob) ==
    IF \E k \in 1..Len(zip) : zip[k].name = name
    THEN zip
    ELSE Append(zip, [name |-> name, blob |-> blob])

\* zip.file(name, blob): JSZip keeps one entry per name (files[name] = entry),
\* a later call with the same name replaces the entry where it stands
ZipFile(zip, name, blob) ==
    IF \E k \in 1..Len(zip) : zip[k].name = name
    THEN [k \in 1..Len(zip) |->
            IF zip[k].name = name THEN [name |-> name, blob |-> blob] ELSE zip[k]]
    ELSE Append(zip, [name |-> name, blob |-> blob])

\* mutant of Push: unshift instead of push
PushFront(rec) ==
    LET idx  == rec.i + 1
        name == [title |-> photos[idx], ext |-> rec.opts.format]
    IN  [rec EXCEPT !.processedPhotos = <<[name |-> name, blob |-> idx]>> \o @,
                    !.zip = ZipFile(@, name, idx)]

\* the body of the inner try after the await resolved: item rec.i + 1 succeeded
Push(rec) ==
    LET idx  == rec.i + 1
        name == FileName(photos[idx], rec.opts)
    IN  [rec EXCEPT !.processedPhotos = Append(@, [name |-> name, blob |-> idx]),
                    !.zip = ZipFile(@, name, idx)]

\* the inner catch: item rec.i + 1 failed
Catch(rec) ==
    [rec EXCEPT !.toasts = Append(@, Toast("itemFailed", photos[rec.i + 1], 0))]

\* mutant of LoopCond: the loop ends at the first failed item
LoopCondAbort(rec) == rec.i < Len(photos) /\ Len(rec.processedPhotos) = rec.i

\* mutant of LoopCond: the loop ends once the dialog is closed
LoopCondCancel(rec) == rec.i < Len(photos) /\ open

\* `i < photos.length`
LoopCond(rec) == rec.i < Len(photos)

\* mutant of ShouldPack: the archive is generated whatever the successes
ShouldPackAlways(rec) == TRUE

\* `processedPhotos.length > 0`
ShouldPack(rec) == Len(rec.processedPhotos) > 0

\* mutant of ProgressAfter: only the successes count
ProgressSucceeded(rec) == [n |-> Len(rec.processedPhotos) * 100, d |-> Len(photos)]

\* mutant of ProgressAfter: the items left, not the items done
ProgressRemaining(rec) == [n |-> (Len(photos) - rec.i + 1) * 100, d |-> Len(photos)]

\* setProgress(((i + 1) / photos.length) * 100), rec.i being i + 1 already
ProgressAfter(rec) == [n |-> rec.i * 100, d |-> Len(photos)]

\* mutant of NothingToDo: no guard on the empty list
NothingToDoNever == FALSE

\* `photos.length === 0`: the early return, and the Start button's disabled
NothingToDo == Len(photos) = 0

\* mutant of StartDisabled: the button stays enabled during a run
StartDisabledNever == FALSE

\* `disabled={processing || ...}` of the Start button
StartDisabled == processing

\* mutant of BeginItem: the next item is started along with this one
BeginItemPair(rec, ctx) ==
    [rec EXCEPT !.attempts = @ \o <<rec.i + 1, rec.i + 2>>,
                !.pc = IF ctx THEN "load" ELSE "ctx"]

\* processImage(photos[rec.i + 1]) is called; without a 2d context it rejects
\* at once, otherwise the image starts loading
BeginItem(rec, ctx) ==
    [rec EXCEPT !.attempts = Append(@, rec.i + 1),
                !.pc = IF ctx THEN "load" ELSE "ctx"]

\* mutant of Finally: the run ends without resetting the dialog's state
FinallySkipped(r, rec) ==
    /\ run' = [run EXCEPT ![r] = [rec EXCEPT !.pc = "done", !.canvas = NoCanvas, !.encode = NoEncode]]
    /\ UNCHANGED <<processing, progress, currentPhoto>>

\* the finally block
Finally(r, rec) ==
    /\ run' = [run EXCEPT ![r] = [rec EXCEPT !.pc = "done", !.canvas = NoCanvas, !.encode = NoEncode]]
    /\ processing' = FALSE
    /\ progress' = NoProgress
    /\ currentPhoto' = ""

\* from the loop head (rec.i items settled) to the next await or to the end;
\* proc and prog are the values of processing and progress set so far
Continue(r, rec, proc, prog) ==
    IF LoopCond(rec)
    THEN \E ctx \in BOOLEAN :
            /\ run' = [run EXCEPT ![r] = BeginItem(rec, ctx)]
            /\ processing' = proc
            /\ progress' = prog
            /\ currentPhoto' = photos[rec.i + 1]
    ELSE IF ShouldPack(rec)
         THEN /\ run' = [run EXCEPT ![r] = [rec EXCEPT !.pc = "zip"]]
              /\ processing' = proc
              /\ progress' = prog
              /\ UNCHANGED currentPhoto
         ELSE Finally(r, rec)

\* the end of one loop iteration: setProgress, i++, then the loop head
Settle(r, rec) ==
    LET next == [rec EXCEPT !.i = @ + 1, !.canvas = NoCanvas, !.encode = NoEncode]
    IN  Continue(r, next, processing, ProgressAfter(next))

FreeSlots == {r \in RunIds : ~Active(r)}

(* ------------------------------ actions -------------------------------- *)
\* Gallery.handleBatchProcess: the dialog is shown
OpenDialog ==
    /\ ~open
    /\ open' = TRUE
    /\ UNCHANGED <<photos, options, edits, processing, progress, currentPhoto,
                   run, lastClick>>
    /\ UNCHANGED others

\* the X button of the dialog header: onOpenChange(false), at any time
CloseDialog ==
    /\ open
    /\ open' = FALSE
    /\ run' = [r \in RunIds |->
                 IF Active(r) /\ run[r].closedAt = -1
                 THEN [run[r] EXCEPT !.closedAt = Len(run[r].attempts)]
                 ELSE run[r]]
    /\ UNCHANGED <<photos, options, edits, processing, progress, currentPhoto,
                   lastClick>>
    /\ UNCHANGED others

\* a click on Start Processing; startBatchProcessing up to its first await
ClickStart ==
    /\ open
    /\ FreeSlots # {}
    /\ IF StartDisabled
       THEN /\ lastClick' = "rejected"
            /\ UNCHANGED <<run, processing, progress, currentPhoto>>
       ELSE IF NothingToDo
            THEN /\ lastClick' = "empty"
                 /\ UNCHANGED <<run, processing, progress, currentPhoto>>
            ELSE LET r == CHOOSE s \in FreeSlots : \A t \in FreeSlots : s <= t
                 IN  /\ lastClick' = "started"
                     /\ Continue(r, [IdleRun EXCEPT !.opts = options],
                                 TRUE, NoProgress)
    /\ UNCHANGED <<photos, open, options, edits>>
    /\ UNCHANGED others

\* updateNestedOptions('resize', 'enabled', checked)
ToggleEnabled ==
    /\ open /\ edits < MaxEdits
    /\ options' = [options EXCEPT !.enabled = ~@]
    /\ edits' = edits + 1
    /\ UNCHANGED <<photos, open, processing, progress, currentPhoto, run, lastClick>>
    /\ UNCHANGED others

\* updateNestedOptions('resize', 'width', parseInt(e.target.value))
SetWidth ==
    /\ open /\ edits < MaxEdits /\ options.enabled
    /\ \E text \in WidthTexts : options' = [options EXCEPT !.width = ParseInt(text)]
    /\ options' # options
    /\ edits' = edits + 1
    /\ UNCHANGED <<photos, open, processing, progress, currentPhoto, run, lastClick>>
    /\ UNCHANGED others

\* updateNestedOptions('resize', 'height', parseInt(e.target.value))
SetHeight ==
    /\ open /\ edits < MaxEdits /\ options.enabled
    /\ \E text \in WidthTexts : options' = [options EXCEPT !.height = ParseInt(text)]
    /\ options' # options
    /\ edits' = edits + 1
    /\ UNCHANGED <<photos, open, processing, progress, currentPhoto, run, lastClick>>
    /\ UNCHANGED others

\* updateNestedOptions('resize', 'maintainAspectRatio', checked)
ToggleAspect ==
    /\ open /\ edits < MaxEdits /\ options.enabled
    /\ options' = [options EXCEPT !.maintainAspectRatio = ~@]
    /\ edits' = edits + 1
    /\ UNCHANGED <<photos, open, processing, progress, currentPhoto, run, lastClick>>
    /\ UNCHANGED others

\* updateOptions('format', value)
SetFormat ==
    /\ open /\ edits < MaxEdits
    /\ \E f \in Formats \ {options.format} : options' = [options EXCEPT !.format = f]
    /\ edits' = edits + 1
    /\ UNCHANGED <<photos, open, processing, progress, currentPhoto, run, lastClick>>
    /\ UNCHANGED others

\* `if (!ctx) reject(...)`: the await of processImage throws into the inner catch
CtxRejected(r) ==
    /\ run[r].pc = "ctx"
    /\ Settle(r, Catch(run[r]))
    /\ UNCHANGED <<photos, open, options, edits, lastClick>>
    /\ UNCHANGED others

\* mutant of ImgOnLoad: the options are read from the state at load time
ImgOnLoadLive(r) ==
    /\ run[r].pc = "load"
    /\ \E sz \in NaturalSizes :
          run' = [run EXCEPT ![r] = [@ EXCEPT !.pc = "encode",
                                        !.canvas = Canvas(sz[1], sz[2], options),
                                        !.encode = Encode(options)]]
    /\ UNCHANGED <<photos, open, options, edits, processing, progress,
                   currentPhoto, lastClick>>
    /\ UNCHANGED others

\* img.onload: dimensions, canvas, filter, drawImage, canvas.toBlob(...)
ImgOnLoad(r) ==
    /\ run[r].pc = "load"
    /\ \E sz \in NaturalSizes :
          run' = [run EXCEPT ![r] = [@ EXCEPT !.pc = "encode",
                                        !.canvas = Canvas(sz[1], sz[2], run[r].opts),
                                        !.encode = Encode(run[r].opts)]]
    /\ UNCHANGED <<photos, open, options, edits, processing, progress,
                   currentPhoto, lastClick>>
    /\ UNCHANGED others

\* img.onerror: reject('Failed to load image'), caught by the inner catch
ImgOnError(r) ==
    /\ run[r].pc = "load"
    /\ Settle(r, Catch(run[r]))
    /\ UNCHANGED <<photos, open, options, edits, lastClick>>
    /\ UNCHANGED others

\* the toBlob callback with a blob: resolve, push, zip.file
ToBlobResolved(r) ==
    /\ run[r].pc = "encode"
    /\ run[r].canvas.w > 0 /\ run[r].canvas.h > 0
    /\ Settle(r, Push(run[r]))
    /\ UNCHANGED <<photos, open, options, edits, lastClick>>
    /\ UNCHANGED others

\* the toBlob callback with null (always so for a canvas without pixels):
\* reject('Failed to process image'), caught by the inner catch
ToBlobNull(r) ==
    /\ run[r].pc = "encode"
    /\ Settle(r, Catch(run[r]))
    /\ UNCHANGED <<photos, open, options, edits, lastClick>>
    /\ UNCHANGED others

\* zip.generateAsync resolved: saveAs, toast.success, finally
ZipGenerated(r) ==
    /\ run[r].pc = "zip"
    /\ Finally(r, [run[r] EXCEPT
                     !.saved = Append(@, run[r].zip),
                     !.toasts = Append(@, Toast("success", "", Len(run[r].processedPhotos)))])
    /\ UNCHANGED <<photos, open, options, edits, lastClick>>
    /\ UNCHANGED others

\* zip.generateAsync rejected: the outer catch, finally
ZipFailed(r) ==
    /\ run[r].pc = "zip"
    /\ Finally(r, [run[r] EXCEPT
                     !.threw = TRUE,
                     !.toasts = Append(@, Toast("batchFailed", "", 0))])
    /\ UNCHANGED <<photos, open, options, edits, lastClick>>
    /\ UNCHANGED others

\* the dialog and its runs, the option controls left alone
Next ==
    \/ OpenDialog
    \/ CloseDialog
    \/ ClickStart
    \/ \E r \in RunIds : CtxRejected(r)
    \/ \E r \in RunIds : ImgOnLoad(r)
    \/ \E r \in RunIds : ImgOnError(r)
    \/ \E r \in RunIds : ToBlobResolved(r)
    \/ \E r \in RunIds : ToBlobNull(r)
    \/ \E r \in RunIds : ZipGenerated(r)
    \/ \E r \in RunIds : ZipFailed(r)

Spec == Init /\ [][Next]_vars

\* the dialog, its runs and the option controls
NextEdit ==
    \/ Next
    \/ ToggleEnabled
    \/ SetWidth
    \/ SetHeight
    \/ ToggleAspect
    \/ SetFormat

InitEdit == Init /\ Len(photos) <= MaxEditPhotos

SpecEdit == InitEdit /\ [][NextEdit]_vars

TypeOK ==
    /\ photos \in PhotoLists
    /\ open \in BOOLEAN
    /\ processing \in BOOLEAN
    /\ edits \in 0..MaxEdits \cup 0..MaxToneEdits
    /\ drawn.done \in BOOLEAN
    /\ originalImage.loaded \in BOOLEAN
    /\ currentPhoto \in Titles \cup {""}
    /\ lastClick \in {"none", "started", "rejected", "empty"}
    /\ \A r \in RunIds : run[r].i \in 0..Len(photos)


(* ------------------- runs whose awaits all settle --------------------- *)
InitFair == Init /\ Len(photos) <= MaxFairPhotos

\* each await of a run settles: processImage resolves or rejects, and so does
\* zip.generateAsync
RunStep(r) ==
    \/ CtxRejected(r)
    \/ ImgOnLoad(r)
    \/ ImgOnError(r)
    \/ ToBlobResolved(r)
    \/ ToBlobNull(r)
    \/ ZipGenerated(r)
    \/ ZipFailed(r)

SpecFair == InitFair /\ [][Next]_vars /\ \A r \in RunIds : WF_vars(RunStep(r))

(* ------------------- notifications that may throw --------------------- *)
\* an exception raised inside the loop body outside the inner try's guarded
\* part: the outer catch (console.error, toast.error), then finally
OuterCatch(r, rec) ==
    Finally(r, [rec EXCEPT !.threw = TRUE,
                           !.notifyThrew = TRUE,
                           !.toasts = Append(@, Toast("batchFailed", "", 0))])

\* processImage rejected and, in the inner catch, toast.error threw
ToastErrorThrows(r) ==
    /\ run[r].pc \in {"ctx", "load", "encode"}
    /\ OuterCatch(r, run[r])
    /\ UNCHANGED <<photos, open, options, edits, lastClick>>
    /\ UNCHANGED others

\* the item succeeded (push, zip.file) and setProgress threw
SetProgressThrows(r) ==
    /\ run[r].pc = "encode"
    /\ run[r].canvas.w > 0 /\ run[r].canvas.h > 0
    /\ OuterCatch(r, Push(run[r]))
    /\ UNCHANGED <<photos, open, options, edits, lastClick>>
    /\ UNCHANGED others

\* the dialog and its runs, with notifications that can fail
NextReporter ==
    \/ Next
    \/ \E r \in RunIds : ToastErrorThrows(r)
    \/ \E r \in RunIds : SetProgressThrows(r)

SpecReporter == Init /\ [][NextReporter]_vars

(* ---------------- one img.onload, over a range of inputs --------------- *)
\* natural sizes: the two sources of the worked example, a square one, two
\* wide ones
Sources == { [w |-> 1920, h |-> 1080], [w |-> 800, h |-> 1200], [w |-> 2, h |-> 2],
             [w |-> 4, h |-> 1], [w |-> 7, h |-> 3] }

TargetWidths  == {1, 35, 640}
TargetHeights == {2, 640}
Qualities     == {10, 90}

\* the options the controls can produce, the tone sliders left at 0
ImageOptions ==
    { [defaultOptions EXCEPT !.enabled = e, !.maintainAspectRatio = m,
                             !.width = Num(tw), !.height = Num(th),
                             !.format = f, !.quality = q] :
        e \in BOOLEAN, m \in BOOLEAN, tw \in TargetWidths, th \in TargetHeights,
        f \in Formats, q \in Qualities }

InitImage ==
    /\ photos = <<>>
    /\ open = FALSE
    /\ options \in ImageOptions
    /\ edits = 0
    /\ processing = FALSE
    /\ progress = NoProgress
    /\ currentPhoto = ""
    /\ run = [r \in RunIds |-> IdleRun]
    /\ lastClick = "none"
    /\ img \in Sources
    /\ drawn = NotDrawn
    /\ activeFilters = filterPresets[1].filters
    /\ originalImage = NoOriginal
    /\ slider = NoSlider
    /\ PagesIdle

\* img.onload of processImage for the image img under the options
Draw ==
    /\ img # NoImage
    /\ ~drawn.done
    /\ drawn' = OnLoad(img.w, img.h, options)
    /\ UNCHANGED <<photos, open, options, edits, processing, progress,
                   currentPhoto, run, lastClick, img, activeFilters, originalImage, slider>>
    /\ UNCHANGED pages

NextImage == Draw

SpecImage == InitImage /\ [][NextImage]_vars

(* ------------------ the tone controls, batch and editor ---------------- *)
FilterNames == {"brightness", "contrast", "saturation", "blur"}

\* slider positions: the batch sliders store them as they are, the editor's
\* divide them by 100
SliderValues(name) == IF name = "blur" THEN {0, 5} ELSE {-50, 0, 50}

InitTone ==
    /\ photos = <<>>
    /\ open = TRUE
    /\ options = defaultOptions
    /\ edits = 0
    /\ processing = FALSE
    /\ progress = NoProgress
    /\ currentPhoto = ""
    /\ run = [r \in RunIds |-> IdleRun]
    /\ lastClick = "none"
    /\ img = [w |-> 4, h |-> 2]
    /\ drawn = NotDrawn
    /\ activeFilters = filterPresets[1].filters
    /\ originalImage = NoOriginal
    /\ slider = NoSlider
    /\ PagesIdle

\* updateNestedOptions('filters', name, value) of a batch slider
SetTone ==
    /\ edits < MaxToneEdits
    /\ \E name \in FilterNames : \E v \in SliderValues(name) :
          options' = [options EXCEPT !.filters[name] = v]
    /\ options' # options
    /\ edits' = edits + 1
    /\ UNCHANGED <<photos, open, processing, progress, currentPhoto, run, lastClick>>
    /\ UNCHANGED others

\* FabricImage.fromURL resolved: setOriginalImage(img), then the effect
ImageLoaded ==
    /\ ~originalImage.loaded
    /\ originalImage' = applyFilters(activeFilters, [originalImage EXCEPT !.loaded = TRUE])
    /\ UNCHANGED <<photos, open, options, edits, processing, progress,
                   currentPhoto, run, lastClick, img, drawn, activeFilters, slider>>
    /\ UNCHANGED pages

\* handleFilterChange(filterName, value) of an editor slider, then the effect
handleFilterChange ==
    /\ edits < MaxToneEdits
    /\ \E name \in FilterNames : \E v \in SliderValues(name) :
          /\ activeFilters' = [activeFilters EXCEPT ![name] = Div(Num(v), Num(100))]
          /\ slider' = [name |-> name, value |-> v]
    /\ activeFilters' # activeFilters
    /\ originalImage' = applyFilters(activeFilters', originalImage)
    /\ edits' = edits + 1
    /\ UNCHANGED <<photos, open, options, processing, progress,
                   currentPhoto, run, lastClick, img, drawn>>
    /\ UNCHANGED pages

\* handleFilterPreset(preset), then the effect
handleFilterPreset ==
    /\ edits < MaxToneEdits
    /\ \E p \in 1..Len(filterPresets) : activeFilters' = filterPresets[p].filters
    /\ activeFilters' # activeFilters
    /\ originalImage' = applyFilters(activeFilters', originalImage)
    /\ slider' = NoSlider
    /\ edits' = edits + 1
    /\ UNCHANGED <<photos, open, options, processing, progress,
                   currentPhoto, run, lastClick, img, drawn>>
    /\ UNCHANGED pages

NextTone ==
    \/ SetTone
    \/ Draw
    \/ ImageLoaded
    \/ handleFilterChange
    \/ handleFilterPreset

SpecTone == InitTone /\ [][NextTone]_vars

(* --------------- every control of the dialog during a run ------------- *)
\* updateOptions('quality', value): the slider is rendered unless the format
\* is png
SetQuality ==
    /\ open /\ edits < MaxEdits /\ options.format # "png"
    /\ \E q \in Qualities \ {options.quality} : options' = [options EXCEPT !.quality = q]
    /\ edits' = edits + 1
    /\ UNCHANGED <<photos, open, processing, progress, currentPhoto, run, lastClick>>
    /\ UNCHANGED others

\* updateNestedOptions('filters', name, value) while the dialog is shown
SetFilter ==
    /\ open /\ edits < MaxEdits
    /\ SetTone

NextSnapshot ==
    \/ NextEdit
    \/ SetQuality
    \/ SetFilter

\* the photo lists of the runs watched for the options they use
SnapshotLists == {<<"a", "b">>}

InitSnapshot == Init /\ photos \in SnapshotLists

SpecSnapshot == InitSnapshot /\ [][NextSnapshot]_vars

(* ----------------------------- the gallery ---------------------------- *)
\* a row of table photos, as far as the pages read it
Photo(id, title) == [id |-> id, title |-> title]

\* the titles of the fetched photos: a, b, a, ...
TitleOf(id) == IF id % 2 = 1 THEN "a" ELSE "b"

\* texts typed in the search box
SearchTerms == {"", "a"}

Ids(list) == {list[k].id : k \in 1..Len(list)}

Includes(seq, x) == \E k \in 1..Len(seq) : seq[k] = x

\* array.filter(x => x !== y)
Without(seq, y) == SelectSeq(seq, LAMBDA x : x # y)

\* PhotoGrid's effect: the photos whose title includes the search term
filteredPhotos(list, term) ==
    SelectSeq(list, LAMBDA ph : term = "" \/ ph.title = term)

\* mutant of selectedPhotoObjects: the photos in the order of selection
selectedPhotoObjectsAsSelected(list, sel) ==
    LET present == SelectSeq(sel, LAMBDA id : id \in Ids(list))
    IN  [k \in 1..Len(present) |->
            LET j == CHOOSE j \in 1..Len(list) : list[j].id = present[k]
            IN  list[j]]

\* photos.filter(photo => selectedPhotos.includes(photo.id))
selectedPhotoObjects(list, sel) ==
    SelectSeq(list, LAMBDA ph : Includes(sel, ph.id))

\* the photos prop of BatchProcessor after a render of Gallery
Render(list, sel) ==
    LET objs == selectedPhotoObjects(list, sel)
    IN  photos' = [k \in 1..Len(objs) |-> objs[k].title]

InitGallery ==
    /\ photos = <<>>
    /\ open = FALSE
    /\ options = defaultOptions
    /\ edits = 0
    /\ processing = FALSE
    /\ progress = NoProgress
    /\ currentPhoto = ""
    /\ run = [r \in RunIds |-> IdleRun]
    /\ lastClick = "none"
    /\ img = NoImage
    /\ drawn = NotDrawn
    /\ activeFilters = filterPresets[1].filters
    /\ originalImage = NoOriginal
    /\ slider = NoSlider
    /\ \E n \in 0..MaxGallery : gallery = [k \in 1..n |-> Photo(k, TitleOf(k))]
    /\ selectedPhotos = <<>>
    /\ searchTerm = ""
    /\ deleting = {}
    /\ selectedFiles = <<>>
    /\ uploading = FALSE
    /\ uploadProgress = NoProgress
    /\ upload = IdleUpload
    /\ db = NoRows

\* what no action of the gallery page touches
beside == <<options, edits, processing, progress, currentPhoto, run, lastClick,
            img, drawn, activeFilters, originalImage, slider,
            selectedFiles, uploading, uploadProgress, upload, db>>

\* a click on a tile of the grid
toggleSelection ==
    /\ ~open
    /\ \E ph \in Ids(filteredPhotos(gallery, searchTerm)) :
          selectedPhotos' = IF Includes(selectedPhotos, ph)
                            THEN Without(selectedPhotos, ph)
                            ELSE Append(selectedPhotos, ph)
    /\ Render(gallery, selectedPhotos')
    /\ UNCHANGED <<open, gallery, searchTerm, deleting>>
    /\ UNCHANGED beside

\* the Select All button
selectAll ==
    /\ ~open
    /\ LET shown == filteredPhotos(gallery, searchTerm)
       IN  selectedPhotos' = [k \in 1..Len(shown) |-> shown[k].id]
    /\ Render(gallery, selectedPhotos')
    /\ UNCHANGED <<open, gallery, searchTerm, deleting>>
    /\ UNCHANGED beside

\* the Clear button, rendered while something is selected
clearSelection ==
    /\ ~open
    /\ Len(selectedPhotos) > 0
    /\ selectedPhotos' = <<>>
    /\ Render(gallery, selectedPhotos')
    /\ UNCHANGED <<open, gallery, searchTerm, deleting>>
    /\ UNCHANGED beside

\* typing in the search box
setSearchTerm ==
    /\ ~open
    /\ \E t \in SearchTerms \ {searchTerm} : searchTerm' = t
    /\ UNCHANGED <<photos, open, gallery, selectedPhotos, deleting>>
    /\ UNCHANGED beside

\* handleDelete(photo) up to its first await; the closure holds the photos
\* prop of this render
DeleteClicked ==
    /\ ~open
    /\ Cardinality(deleting) < MaxPending
    /\ \E ph \in Ids(filteredPhotos(gallery, searchTerm)) :
          /\ \A d \in deleting : d.id # ph
          /\ deleting' = deleting \cup {[id |-> ph, photos |-> gallery]}
    /\ UNCHANGED <<photos, open, gallery, selectedPhotos, searchTerm>>
    /\ UNCHANGED beside

\* both deletions succeeded: onPhotosChange(photos.filter(p => p.id !== photo.id))
DeleteDone ==
    /\ \E d \in deleting :
          /\ gallery' = SelectSeq(d.photos, LAMBDA ph : ph.id # d.id)
          /\ deleting' = deleting \ {d}
    /\ Render(gallery', selectedPhotos)
    /\ UNCHANGED <<open, selectedPhotos, searchTerm>>
    /\ UNCHANGED beside

\* deleteImage or the row deletion failed: the catch, toast.error
DeleteFailed ==
    /\ \E d \in deleting : deleting' = deleting \ {d}
    /\ UNCHANGED <<photos, open, gallery, selectedPhotos, searchTerm>>
    /\ UNCHANGED beside

\* the Batch Process (n) button, rendered while selectedPhotos.length > 0
handleBatchProcess ==
    /\ ~open
    /\ Len(selectedPhotos) > 0
    /\ open' = TRUE
    /\ UNCHANGED <<photos, gallery, selectedPhotos, searchTerm, deleting>>
    /\ UNCHANGED beside

NextGallery ==
    \/ toggleSelection
    \/ selectAll
    \/ clearSelection
    \/ setSearchTerm
    \/ DeleteClicked
    \/ DeleteDone
    \/ DeleteFailed
    \/ handleBatchProcess
    \/ CloseDialog

SpecGallery == InitGallery /\ [][NextGallery]_vars

(* ----------------------------- the upload ----------------------------- *)
\* the image files the dropzone accepts, by the part of the name before the dot
FileNames == {"f", "g"}

InitUpload ==
    /\ photos = <<>>
    /\ open = FALSE
    /\ options = defaultOptions
    /\ edits = 0
    /\ processing = FALSE
    /\ progress = NoProgress
    /\ currentPhoto = ""
    /\ run = [r \in RunIds |-> IdleRun]
    /\ lastClick = "none"
    /\ img = NoImage
    /\ drawn = NotDrawn
    /\ activeFilters = filterPresets[1].filters
    /\ originalImage = NoOriginal
    /\ slider = NoSlider
    /\ \E n \in 0..1 : gallery = [k \in 1..n |-> Photo(k, TitleOf(k))]
    /\ selectedPhotos = <<>>
    /\ searchTerm = ""
    /\ deleting = {}
    /\ selectedFiles = <<>>
    /\ uploading = FALSE
    /\ uploadProgress = NoProgress
    /\ upload = IdleUpload
    /\ db = NoRows

\* what no action of the upload page touches
aside == <<photos, open, options, edits, processing, progress, currentPhoto, run,
           lastClick, img, drawn, activeFilters, originalImage, slider,
           selectedPhotos, searchTerm, deleting>>

\* onDrop(acceptedFiles) with one image file
onDrop ==
    /\ Len(selectedFiles) < MaxFiles
    /\ \E f \in FileNames : selectedFiles' = Append(selectedFiles, f)
    /\ UNCHANGED <<gallery, uploading, uploadProgress, upload, db>>
    /\ UNCHANGED aside

\* removeFile(index)
removeFile ==
    /\ \E index \in 1..Len(selectedFiles) :
          selectedFiles' = [k \in 1..(Len(selectedFiles) - 1) |->
                               IF k < index THEN selectedFiles[k] ELSE selectedFiles[k + 1]]
    /\ UNCHANGED <<gallery, uploading, uploadProgress, upload, db>>
    /\ UNCHANGED aside

\* the finally block of uploadFiles
UploadFinally(rec) ==
    /\ upload' = [rec EXCEPT !.pc = "done"]
    /\ uploading' = FALSE
    /\ uploadProgress' = NoProgress

\* mutant of UploadFailed: the photos inserted so far are handed to the gallery
UploadFailedPartial(rec) ==
    /\ UploadFinally([rec EXCEPT !.toasts = Append(@, Toast("uploadFailed", "", 0)),
                                 !.completed = Append(@, rec.uploadedPhotos)])
    /\ gallery' = rec.uploadedPhotos \o gallery
    /\ UNCHANGED selectedFiles

\* an await of the loop threw: the catch (console.error, toast.error), finally
UploadFailed(rec) ==
    /\ UploadFinally([rec EXCEPT !.toasts = Append(@, Toast("uploadFailed", "", 0))])
    /\ UNCHANGED <<gallery, selectedFiles>>

\* a click on the Upload button (disabled while uploading), up to the first await
uploadFiles ==
    /\ ~uploading
    /\ Len(selectedFiles) > 0
    /\ Len(db.stored) + Len(selectedFiles) <= MaxStored
    /\ uploading' = TRUE
    /\ uploadProgress' = NoProgress
    /\ upload' = [IdleUpload EXCEPT !.pc = "store", !.files = selectedFiles]
    /\ UNCHANGED <<gallery, selectedFiles, db>>
    /\ UNCHANGED aside

\* uploadImage resolved: the object is in the bucket, the insert is sent
StoreDone ==
    /\ upload.pc = "store"
    /\ db' = [db EXCEPT !.stored = Append(@, upload.files[upload.i + 1])]
    /\ upload' = [upload EXCEPT !.pc = "insert"]
    /\ UNCHANGED <<gallery, selectedFiles, uploading, uploadProgress>>
    /\ UNCHANGED aside

\* uploadImage threw
StoreFailed ==
    /\ upload.pc = "store"
    /\ UploadFailed(upload)
    /\ UNCHANGED db
    /\ UNCHANGED aside

\* the insert returned the row: push, setUploadProgress, and after the last
\* file toast.success, onUploadComplete, setSelectedFiles([]), finally
InsertDone ==
    /\ upload.pc = "insert"
    /\ LET photo == Photo(MaxGallery + Len(db.rows) + 1, upload.files[upload.i + 1])
           rec == [upload EXCEPT !.uploadedPhotos = Append(@, photo), !.i = @ + 1]
       IN  /\ db' = [db EXCEPT !.rows = Append(@, photo)]
           /\ IF rec.i < Len(rec.files)
              THEN /\ upload' = [rec EXCEPT !.pc = "store"]
                   /\ uploadProgress' = [n |-> rec.i * 100, d |-> Len(rec.files)]
                   /\ UNCHANGED <<gallery, selectedFiles, uploading>>
              ELSE /\ UploadFinally(
                         [rec EXCEPT
                            !.toasts = Append(@, Toast("uploaded", "", Len(rec.uploadedPhotos))),
                            !.completed = Append(@, rec.uploadedPhotos)])
                   /\ gallery' = rec.uploadedPhotos \o gallery
                   /\ selectedFiles' = <<>>
    /\ UNCHANGED aside

\* the insert returned an error: `if (error) throw error`
InsertError ==
    /\ upload.pc = "insert"
    /\ UploadFailed(upload)
    /\ UNCHANGED db
    /\ UNCHANGED aside

NextUpload ==
    \/ onDrop
    \/ removeFile
    \/ uploadFiles
    \/ StoreDone
    \/ StoreFailed
    \/ InsertDone
    \/ InsertError

SpecUpload == InitUpload /\ [][NextUpload]_vars

(* ============================== claims ================================= *)
\* number of per-item failure notices of a run
Failed(rec) == Cardinality({k \in 1..Len(rec.toasts) : rec.toasts[k].kind = "itemFailed"})

\* the names recorded in processedPhotos
Names(rec) == {rec.processedPhotos[k].name : k \in 1..Len(rec.processedPhotos)}

\* position of the first success recorded under a name
FirstPush(rec, name) ==
    CHOOSE k \in 1..Len(rec.processedPhotos) :
        /\ rec.processedPhotos[k].name = name
        /\ \A j \in 1..(k - 1) : rec.processedPhotos[j].name # name

\* the loop is over: every await of processImage is behind
LoopOver(rec) == rec.pc \in {"zip", "done"}

\* C1: a failure of item i never aborts the batch: whatever items failed, a
\* run leaves its loop only after processImage was called for every item of
\* the list, in turn, and every item has settled.
C1_FailureNeverAborts ==
    \A r \in RunIds :
        LoopOver(run[r]) =>
            /\ run[r].i = Len(photos)
            /\ Len(run[r].attempts) = Len(photos)
            /\ \A k \in 1..Len(photos) : run[r].attempts[k] = k

\* a finished run of three items whose first two items failed and whose
\* third item succeeded
C1_Witness ==
    \E r \in RunIds :
        /\ run[r].pc = "done" /\ Len(photos) = 3
        /\ Failed(run[r]) = 2
        /\ Len(run[r].processedPhotos) = 1
        /\ run[r].processedPhotos[1].blob = 3

\* C2 as stated: at the end of the loop succeeded + failed = N and the
\* archive holds exactly N - K entries, also for sources that share a name.
C2_Original ==
    \A r \in RunIds :
        LoopOver(run[r]) =>
            /\ Len(run[r].processedPhotos) + Failed(run[r]) = Len(photos)
            /\ Len(run[r].zip) = Len(photos) - Failed(run[r])

\* C2 amended: at the end of the loop succeeded + failed = N, and the archive
\* holds one entry per distinct output name among the N - K successes (so
\* exactly N - K entries when the successes have pairwise distinct names,
\* fewer when two of them share a name).
C2_Counts ==
    \A r \in RunIds :
        LoopOver(run[r]) =>
            /\ Len(run[r].processedPhotos) + Failed(run[r]) = Len(photos)
            /\ Len(run[r].zip) = Cardinality(Names(run[r]))
            /\ {run[r].zip[k].name : k \in 1..Len(run[r].zip)} = Names(run[r])
            /\ (Cardinality(Names(run[r])) = Len(run[r].processedPhotos)
                  => Len(run[r].zip) = Len(photos) - Failed(run[r]))

\* a finished run with one failure and two successes of the same name: the
\* archive holds one entry
C2_Witness ==
    \E r \in RunIds :
        /\ run[r].pc = "done" /\ Len(photos) = 3
        /\ Failed(run[r]) = 1
        /\ Len(run[r].processedPhotos) = 2
        /\ Len(run[r].zip) = 1

\* C3: processing order, result order and archive insertion order are the
\* input order: items are started in the order 1, 2, ..., item k + 1 only
\* after k items have settled; the successes are recorded in increasing
\* source order; the archive lists the names in the order of their first
\* insertion.
C3_InputOrder ==
    \A r \in RunIds :
        LET rec == run[r] IN
        /\ \A k \in 1..Len(rec.attempts) : rec.attempts[k] = k
        /\ Len(rec.attempts) \in {rec.i, rec.i + 1}
        /\ \A k \in 1..Len(rec.processedPhotos) :
              /\ rec.processedPhotos[k].blob \in 1..rec.i
              /\ rec.processedPhotos[k].name.title = photos[rec.processedPhotos[k].blob]
        /\ \A j, k \in 1..Len(rec.processedPhotos) :
              j < k => rec.processedPhotos[j].blob < rec.processedPhotos[k].blob
        /\ \A j, k \in 1..Len(rec.zip) :
              j < k => FirstPush(rec, rec.zip[j].name) < FirstPush(rec, rec.zip[k].name)

\* sources [a, b, b] or [b, a, a] with the second failing: the first and
\* the third are recorded and archived, in this order
C3_Witness ==
    \E r \in RunIds :
        /\ run[r].pc = "done" /\ Len(photos) = 3
        /\ Len(run[r].processedPhotos) = 2
        /\ run[r].processedPhotos[1].blob = 1
        /\ run[r].processedPhotos[2].blob = 3
        /\ Len(run[r].zip) = 2
        /\ run[r].zip[1].blob = 1
        /\ run[r].zip[2].blob = 3


\* C4 as stated: once the dialog is closed during a run, no further item is
\* started and the run reports only the results accumulated so far.
C4_Original ==
    \A r \in RunIds :
        run[r].closedAt # -1 => Len(run[r].attempts) = run[r].closedAt

\* C4 amended: closing the dialog during a run does not cancel it (there
\* is no Cancelled state): the items after the one in flight are still
\* started, and the run leaves its loop only with every item of the list
\* attempted and reported as a success or as a failure.
C4_CloseDoesNotCancel ==
    \A r \in RunIds :
        (run[r].closedAt # -1 /\ LoopOver(run[r])) =>
            /\ Len(run[r].attempts) = Len(photos)
            /\ run[r].closedAt <= Len(run[r].attempts)
            /\ Len(run[r].processedPhotos) + Failed(run[r]) = Len(photos)

\* the dialog was closed while item 2 of 5 was in flight; the run finished
\* with 5 items attempted
C4_Witness ==
    \E r \in RunIds :
        /\ run[r].pc = "done" /\ Len(photos) = 5
        /\ run[r].closedAt = 2
        /\ Len(run[r].attempts) = 5
        /\ Len(run[r].processedPhotos) + Failed(run[r]) = 5

ActiveRuns == {r \in RunIds : Active(r)}

C6_Original ==
    \A r \in RunIds :
        Active(r) => progress.n * Len(photos) = run[r].i * progress.d

\* C6 amended: after the i-th item of N the published progress is the
\* percentage 100 * i / N (a value in 0..100, not the fraction i / N),
\* whatever the number of failures among the i items.
C6_ProgressCountsAttempts ==
    \A r \in RunIds :
        Active(r) => progress.n * Len(photos) = 100 * run[r].i * progress.d

\* two of three items have settled, both failed: the progress is 200/3
C6_Witness ==
    \E r \in RunIds :
        /\ Active(r) /\ Len(photos) = 3 /\ run[r].i = 2
        /\ run[r].processedPhotos = <<>>
        /\ progress.n * 3 = 200 * progress.d

\* C7: while a run is in progress (from its start to its finally block) no
\* update lowers the published progress.
C7_ProgressMonotonic ==
    [][(\E r \in RunIds : Active(r) /\ run'[r].pc \in {"ctx", "load", "encode", "zip"})
          => progress.n * progress'.d <= progress'.n * progress.d]_vars

\* the progress has been raised twice in a run
C7_Witness ==
    \E r \in RunIds :
        /\ Active(r) /\ run[r].i = 2 /\ Len(photos) = 3
        /\ progress.n * 3 = 200 * progress.d

C9_Original ==
    (lastClick = "empty") =>
        \E r \in RunIds :
            Len(run[r].toasts) = 1 /\ run[r].toasts[1].kind = "success"

\* C9 amended: with an empty list the invocation returns at once without
\* any effect: no run is started, processing stays false, progress and the
\* current item are not touched, and no notification at all is issued, not
\* even a completion notice.
C9_EmptyListNoEffect ==
    Len(photos) = 0 =>
        /\ \A r \in RunIds : run[r] = IdleRun
        /\ ~processing
        /\ progress = NoProgress
        /\ currentPhoto = ""
        /\ lastClick \in {"none", "empty"}

\* Start Processing was invoked on the empty list
C9_Witness == lastClick = "empty" /\ Len(photos) = 0 /\ open

\* every field of the resize spec is a positive integer
ValidSpec(o) ==
    /\ ~o.width.nan /\ o.width.d = 1 /\ o.width.n >= 1
    /\ ~o.height.nan /\ o.height.d = 1 /\ o.height.n >= 1

\* C10: a run whose transform spec is invalid is rejected before any image
\* is processed: zero items are attempted.
C10_InvalidSpecRejected ==
    \A r \in RunIds :
        ~ValidSpec(run[r].opts) => run[r].pc = "idle" /\ run[r].attempts = <<>>

(* ------------------------- claims on img.onload ------------------------ *)
\* Math.round of a non-negative JS number
Round(x) == (2 * x.n + x.d) \div (2 * x.d)

Abs(k) == IF k < 0 THEN -k ELSE k

Preserving == drawn.done /\ options.enabled /\ options.maintainAspectRatio

\* C11: with resize enabled and the aspect ratio preserved, a landscape
\* source gets width = targetWidth and height = round(targetWidth * h / w)
\* within 1 px, a portrait source gets height = targetHeight and width =
\* round(targetHeight * w / h) within 1 px; the other target field is not used.
C11_LockedAxis ==
    Preserving =>
        /\ img.w > img.h =>
              /\ drawn.canvas.w = options.width.n
              /\ Abs(drawn.canvas.h - Round(Frac(options.width.n * img.h, img.w))) <= 1
              /\ drawn.canvas = Canvas(img.w, img.h, [options EXCEPT !.height = Num(7)])
        /\ img.w < img.h =>
              /\ drawn.canvas.h = options.height.n
              /\ Abs(drawn.canvas.w - Round(Frac(options.height.n * img.w, img.h))) <= 1
              /\ drawn.canvas = Canvas(img.w, img.h, [options EXCEPT !.width = Num(7)])

\* a 1920x1080 source at target width 640 and target height 2: 640x360
C11_Witness ==
    /\ Preserving
    /\ img = [w |-> 1920, h |-> 1080]
    /\ options.width = Num(640) /\ options.height = Num(2)
    /\ drawn.canvas = [w |-> 640, h |-> 360]

\* C12 as stated: a square source is treated like a landscape one, its
\* output is targetWidth x targetWidth.
C12_Original ==
    (Preserving /\ img.w = img.h) =>
        drawn.canvas = [w |-> options.width.n, h |-> options.width.n]

\* C12 amended: the test is sourceW > sourceH, strictly, so a square source
\* is treated like a portrait one: its output height is targetHeight and its
\* output width is targetHeight * r = targetHeight, for every pair
\* targetWidth, targetHeight including targetWidth # targetHeight.
C12_SquareIsPortrait ==
    (Preserving /\ img.w = img.h) =>
        drawn.canvas = [w |-> options.height.n, h |-> options.height.n]

\* a 2x2 source at target width 640 and target height 2: 2x2
C12_Witness ==
    /\ Preserving
    /\ img = [w |-> 2, h |-> 2]
    /\ options.width = Num(640) /\ options.height = Num(2)
    /\ drawn.canvas = [w |-> 2, h |-> 2]

\* C13: both output dimensions are the computed dimensions rounded to the
\* nearest integer, and at least 1.
C13_RoundedAtLeastOne ==
    drawn.done =>
        LET dim == Dimensions(img.w, img.h, options)
        IN  /\ drawn.canvas.w >= 1
            /\ drawn.canvas.h >= 1
            /\ drawn.canvas.w = Round(dim[1])
            /\ drawn.canvas.h = Round(dim[2])

\* the transform spec of the worked example
ExampleOptions ==
    [defaultOptions EXCEPT !.enabled = TRUE, !.width = Num(640), !.height = Num(640)]

\* C14: under the spec of the example (resize to 640 x 640, aspect ratio
\* preserved, neutral tone, JPEG at quality 90) s1 (1920x1080) is output at
\* 640x360 and s2 (800x1200) at 427x640, as <name>.jpeg.
C14_Example ==
    (drawn.done /\ options = ExampleOptions) =>
        /\ img = [w |-> 1920, h |-> 1080] => drawn.canvas = [w |-> 640, h |-> 360]
        /\ img = [w |-> 800, h |-> 1200] => drawn.canvas = [w |-> 427, h |-> 640]
        /\ drawn.toBlob.type = <<"image", "jpeg">>
        /\ FileName("s1", options).ext = "jpeg"

\* C15: with resize.enabled = false the output dimensions are the natural
\* dimensions of the source, whatever targetWidth, targetHeight and
\* preserveAspectRatio.
C15_DisabledKeepsSize ==
    (drawn.done /\ ~options.enabled) =>
        drawn.canvas = [w |-> img.w, h |-> img.h]

\* resize disabled, aspect box unchecked, targets 35 x 2: a 7x3 source stays 7x3
C15_Witness ==
    /\ drawn.done /\ ~options.enabled /\ ~options.maintainAspectRatio
    /\ options.width = Num(35) /\ options.height = Num(2)
    /\ img = [w |-> 7, h |-> 3]
    /\ drawn.canvas = [w |-> 7, h |-> 3]

\* C16: with resize enabled and preserveAspectRatio false the output is
\* exactly targetWidth x targetHeight, for every source size and orientation.
C16_ExactTarget ==
    (drawn.done /\ options.enabled /\ ~options.maintainAspectRatio) =>
        drawn.canvas = [w |-> options.width.n, h |-> options.height.n]

\* a portrait 800x1200 source forced to 640 x 2
C16_Witness ==
    /\ drawn.done /\ options.enabled /\ ~options.maintainAspectRatio
    /\ img = [w |-> 800, h |-> 1200]
    /\ drawn.canvas = [w |-> 640, h |-> 2]

(* ------------------------ claims on the archive ------------------------ *)
\* the blob of the last success of the run named `name`
LastBlob(rec, name) ==
    LET ks == {k \in 1..Len(rec.processedPhotos) : rec.processedPhotos[k].name = name}
        last == CHOOSE k \in ks : \A j \in ks : j <= k
    IN  rec.processedPhotos[last].blob

\* C17: two successful items with the same output name are resolved
\* last-write-wins with no renaming: the archive holds one entry under that
\* name, and its bytes are those of the later item in input order.
C17_LastWriteWins ==
    \A r \in RunIds :
        /\ \A j, k \in 1..Len(run[r].zip) :
              run[r].zip[j].name = run[r].zip[k].name => j = k
        /\ \A k \in 1..Len(run[r].zip) :
              /\ run[r].zip[k].name \in Names(run[r])
              /\ run[r].zip[k].blob = LastBlob(run[r], run[r].zip[k].name)
        /\ \A k \in 1..Len(run[r].saved) : run[r].saved[k] = run[r].zip

\* photos a, b, a all succeeded: the saved archive holds a.jpeg with the
\* bytes of the third photo, then b.jpeg
C17_Witness ==
    \E r \in RunIds :
        /\ run[r].pc = "done"
        /\ photos = <<"a", "b", "a">>
        /\ Len(run[r].processedPhotos) = 3
        /\ run[r].saved = << << [name |-> FileName("a", defaultOptions), blob |-> 3],
                               [name |-> FileName("b", defaultOptions), blob |-> 2] >> >>

(* --------------------- claims on the tone pipeline --------------------- *)
\* the place of a tone op in the order brightness, contrast, saturation,
\* blur, then the editor's additions
Rank(kind) ==
    CASE kind \in {"brightness", "Brightness"} -> 1
      [] kind \in {"contrast", "Contrast"}     -> 2
      [] kind \in {"saturate", "Saturation"}   -> 3
      [] kind \in {"blur", "Blur"}             -> 4
      [] kind = "Sepia"                        -> 5
      [] kind = "Grayscale"                    -> 6

\* C18: the tone pipeline is composed in the fixed order brightness,
\* contrast, saturation, blur, whichever ops are present and in whatever
\* order the user set them; sepia and grayscale come after saturation and do
\* not change the relative order of the four, in the batch filter string and
\* in the editor's applyFilters list.
C18_FixedOrder ==
    /\ drawn.done =>
          /\ Len(drawn.filter) = 4
          /\ \A k \in 1..4 : Rank(drawn.filter[k].fn) = k
    /\ \A j, k \in 1..Len(originalImage.filters) :
          j < k => Rank(originalImage.filters[j].kind) < Rank(originalImage.filters[k].kind)

\* the batch string drawn with the blur slider moved, and the editor
\* list of the Vintage preset with the blur slider moved afterwards
C18_Witness ==
    /\ drawn.done
    /\ drawn.filter[4].arg = 5
    /\ Len(originalImage.filters) = 5
    /\ originalImage.filters[4].kind = "Blur"
    /\ originalImage.filters[5].kind = "Sepia"

\* C19 as stated: the quality is forwarded to the encoder only for a lossy
\* format; for PNG no quality value is passed.
C19_Original ==
    drawn.done =>
        (drawn.toBlob.quality.passed <=> options.format \in {"jpeg", "webp"})

\* C19 amended: the encode call is canvas.toBlob(callback, `image/<format>`,
\* quality / 100) for every format, PNG included: the quality value is always
\* passed, and it is left to the browser's PNG encoder to ignore it.
C19_QualityAlwaysPassed ==
    drawn.done =>
        /\ drawn.toBlob.type = <<"image", options.format>>
        /\ drawn.toBlob.quality.passed
        /\ drawn.toBlob.quality.value = Div(Num(options.quality), Num(100))

\* a PNG encode at quality 10: toBlob gets 10 / 100
C19_Witness ==
    /\ drawn.done
    /\ options.format = "png" /\ options.quality = 10
    /\ drawn.toBlob = [type |-> <<"image", "png">>,
                       quality |-> [passed |-> TRUE, value |-> Frac(10, 100)]]

(* ----------------------- claims on notifications ----------------------- *)
\* C20: a notification that throws during the run never affects the batch
\* outcome: the remaining items are still processed and the successes
\* collected so far are still packed and delivered; the failure is only
\* logged.
C20_ReporterFailureSwallowed ==
    \A r \in RunIds :
        (run[r].pc = "done" /\ run[r].notifyThrew) =>
            /\ Len(run[r].attempts) = Len(photos)
            /\ Len(run[r].processedPhotos) > 0 => Len(run[r].saved) = 1
            /\ \A k \in 1..Len(run[r].toasts) : run[r].toasts[k].kind # "batchFailed"

(* ------------------------ claims on the summary ------------------------ *)
\* the toast.success calls of a run that give the number of successes
Summaries(rec) ==
    {k \in 1..Len(rec.toasts) :
        rec.toasts[k].kind = "success" /\ rec.toasts[k].count = Len(rec.processedPhotos)}

\* C21: every run that was started ends with a summary of the per-item
\* outcomes, also when generating or delivering the archive failed after all
\* items were attempted: the successes and the failures are both reported.
C21_SummaryAlways ==
    \A r \in RunIds :
        run[r].pc = "done" =>
            /\ Failed(run[r]) = Len(photos) - Len(run[r].processedPhotos)
            /\ Len(run[r].processedPhotos) > 0 => Summaries(run[r]) # {}

(* ----------------------- claims on the scheduling ---------------------- *)
InFlight(rec) == rec.pc \in {"ctx", "load", "encode"}

\* C23: within a batch at most one image transform is in flight: item i + 1
\* is started only once item i has resolved or rejected, so the items started
\* are 1, 2, ... in order and exceed the items settled by one exactly while a
\* transform is pending.
C23_OneTransformAtATime ==
    \A r \in RunIds :
        /\ \A k \in 1..Len(run[r].attempts) : run[r].attempts[k] = k
        /\ Len(run[r].attempts) = run[r].i + (IF InFlight(run[r]) THEN 1 ELSE 0)

\* the third item is being encoded, the first two have settled
C23_Witness ==
    \E r \in RunIds :
        /\ run[r].pc = "encode"
        /\ run[r].i = 2
        /\ run[r].attempts = <<1, 2, 3>>
        /\ Len(photos) >= 4

\* the dialog's state between runs
Idle == ~processing /\ progress = NoProgress /\ currentPhoto = ""

\* C26: every started run eventually finishes and returns the runner to
\* idle: provided each await settles, on every exit path the run ends with
\* processing = false, progress = 0 and an empty current item name.
C26_RunEventuallyIdle ==
    \A r \in RunIds : Active(r) ~> (run[r].pc = "done" /\ Idle)

\* a run that ended in the outer catch (the archive could not be generated)
\* after one item failed and one succeeded, the dialog being idle again
C26_Witness ==
    \E r \in RunIds :
        /\ run[r].pc = "done" /\ run[r].threw
        /\ Failed(run[r]) = 1 /\ Len(run[r].processedPhotos) = 1
        /\ Idle

(* -------------------- claims on the captured options ------------------- *)
\* what run r did to its items agrees with the options o
Under(rec, o) ==
    /\ rec.pc = "encode" =>
          /\ rec.canvas \in {Canvas(sz[1], sz[2], o) : sz \in NaturalSizes}
          /\ rec.encode = Encode(o)
    /\ \A k \in 1..Len(rec.processedPhotos) : rec.processedPhotos[k].name.ext = o.format
    /\ \A k \in 1..Len(rec.zip) : rec.zip[k].name.ext = o.format

\* C22: every item of a run is transformed under the options in force when
\* the run started: the run takes the options at the click, keeps them to
\* its end, and the dimensions, filters, format, quality and file extension
\* of every item come from them, whatever the controls do meanwhile.
C22_OptionsCaptured ==
    /\ [](\A r \in RunIds : Under(run[r], run[r].opts))
    /\ [][\A r \in RunIds :
            /\ (~Active(r) /\ Active(r)') => run'[r].opts = options
            /\ Active(r) => run'[r].opts = run[r].opts]_vars

\* the second item is being encoded as a jpeg at its natural size while the
\* controls now say png and resize enabled, the first item having been saved
\* as a jpeg
C22_Witness ==
    \E r \in RunIds :
        /\ run[r].pc = "encode"
        /\ Len(run[r].processedPhotos) = 1
        /\ run[r].opts = defaultOptions
        /\ options.format = "png" /\ options.enabled
        /\ run[r].encode.toBlob.type = <<"image", "jpeg">>

(* ------------------------ claims on the gallery ------------------------ *)
\* the place of the photo id in the gallery's display order
Place(id) == CHOOSE k \in 1..Len(gallery) : gallery[k].id = id

\* the ids selected and still in the gallery
Present == {selectedPhotos[k] : k \in 1..Len(selectedPhotos)} \cap Ids(gallery)

Handed == selectedPhotoObjects(gallery, selectedPhotos)

\* C24 as stated: the list handed to the batch processor lists the selected
\* photos in the order of selection.
C24_Original ==
    Present = {selectedPhotos[k] : k \in 1..Len(selectedPhotos)} =>
        [k \in 1..Len(Handed) |-> Handed[k].id] = selectedPhotos

\* C24 amended: the list handed to the batch processor lists the selected
\* photos that are in the gallery in the gallery's display order, whatever
\* the order of the selection toggles; the batch processes them in that order.
C24_GalleryOrder ==
    /\ Ids(Handed) = Present
    /\ Len(Handed) = Cardinality(Present)
    /\ \A j, k \in 1..Len(Handed) : j < k => Place(Handed[j].id) < Place(Handed[k].id)
    /\ photos = [k \in 1..Len(Handed) |-> Handed[k].title]

\* photo 3 was selected before photo 1, the dialog is open on photos 1, 3
C24_Witness ==
    /\ open
    /\ selectedPhotos = <<3, 1>>
    /\ [k \in 1..Len(Handed) |-> Handed[k].id] = <<1, 3>>
    /\ photos = <<"a", "a">>

\* C27: the number of photos announced for batch processing equals the
\* number handed to the batch processor: selectedPhotos holds only ids of
\* photos that still exist, and the dialog is never open with zero photos.
C27_SelectionExists ==
    /\ {selectedPhotos[k] : k \in 1..Len(selectedPhotos)} \subseteq Ids(gallery)
    /\ Len(selectedPhotos) = Len(photos)
    /\ open => Len(photos) > 0

(* ----------------------- claims on the tone values --------------------- *)
\* the editor's filter class of a tone field
KindOf(name) ==
    CASE name = "brightness" -> "Brightness"
      [] name = "contrast"   -> "Contrast"
      [] name = "saturation" -> "Saturation"
      [] name = "blur"       -> "Blur"

\* a filter function of the batch string that changes no pixel
Identity(op) == op.arg = (IF op.fn = "blur" THEN 0 ELSE 100)

Kinds(list) == {list[k].kind : k \in 1..Len(list)}

\* the editor's list holds exactly the ops whose parameter is not neutral
EditorOmitsNeutral ==
    originalImage.loaded =>
        \A name \in FilterNames :
            KindOf(name) \in Kinds(originalImage.filters) <=> activeFilters[name].n # 0

\* C25 as stated: a tone op whose parameter is neutral is omitted from the
\* composed pipeline, in the editor's list and in the batch filter string.
C25_Original ==
    /\ EditorOmitsNeutral
    /\ drawn.done => \A k \in 1..Len(drawn.filter) : ~Identity(drawn.filter[k])

\* C25 amended: in the editor a tone op whose parameter is neutral is
\* omitted from the list applyFilters builds, which holds exactly the ops
\* whose parameter is not neutral and is empty when all are neutral; the
\* batch filter string always holds the four functions, a neutral one with
\* the argument that changes nothing (100% or 0px).
C25_NeutralOps ==
    /\ []EditorOmitsNeutral
    /\ [][(~drawn.done /\ drawn'.done) =>
             drawn'.filter = << [fn |-> "brightness", arg |-> 100 + options.filters.brightness],
                                [fn |-> "contrast", arg |-> 100 + options.filters.contrast],
                                [fn |-> "saturate", arg |-> 100 + options.filters.saturation],
                                [fn |-> "blur", arg |-> options.filters.blur] >>]_vars

\* the batch string drawn with every slider neutral, and the editor's list
\* with only the brightness moved
C25_Witness ==
    /\ drawn.done
    /\ \A k \in 1..4 : Identity(drawn.filter[k])
    /\ originalImage.loaded
    /\ slider = [name |-> "brightness", value |-> 50]
    /\ Kinds(originalImage.filters) = {"Brightness"}

\* x = y on JS numbers
SameNum(x, y) == ~x.nan /\ ~y.nan /\ x.n * y.d = y.n * x.d

\* C28: in the editor the slider-to-state and state-to-slider conversions of
\* each tone control are inverse to each other: after handleFilterChange
\* stored the slider value v, the value displayed from the state is v again.
C28_SliderRoundTrip ==
    slider # NoSlider =>
        SameNum(Display(slider.name, activeFilters), Num(slider.value))

(* ------------------------ claims on the upload ------------------------- *)
\* the uploadFiles call ended in its catch
UploadAborted(rec) ==
    /\ rec.pc = "done"
    /\ \E k \in 1..Len(rec.toasts) : rec.toasts[k].kind = "uploadFailed"

\* C29: upload is all-or-nothing toward the gallery: if the upload or the
\* insert of file i fails, uploadFiles stops at i, onUploadComplete is never
\* called (the files already stored and inserted are not added to the
\* gallery list), selectedFiles is left unchanged, and uploading and
\* uploadProgress are reset to false and 0.
C29_UploadAllOrNothing ==
    /\ [](UploadAborted(upload) =>
            /\ upload.completed = <<>>
            /\ upload.i < Len(upload.files)
            /\ Len(upload.uploadedPhotos) = upload.i
            /\ \A k \in 1..Len(upload.uploadedPhotos) :
                  /\ upload.uploadedPhotos[k] \notin {gallery[j] : j \in 1..Len(gallery)}
                  /\ upload.uploadedPhotos[k] \in {db.rows[j] : j \in 1..Len(db.rows)}
            /\ \A k \in 1..Len(upload.toasts) : upload.toasts[k].kind # "uploaded")
    /\ [][(upload.pc \in {"store", "insert"} /\ UploadAborted(upload')) =>
             /\ upload'.i = upload.i
             /\ gallery' = gallery
             /\ selectedFiles' = selectedFiles
             /\ ~uploading'
             /\ uploadProgress' = NoProgress]_vars

\* two files were chosen; the first was stored and inserted, the insert of
\* the second failed: the row of the first is on the server, the gallery is
\* as before and both files are still listed
C29_Witness ==
    /\ UploadAborted(upload)
    /\ upload.i = 1
    /\ Len(upload.files) = 2
    /\ Len(db.stored) = 2 /\ Len(db.rows) = 1
    /\ gallery = <<>>
    /\ selectedFiles = upload.files
    /\ ~uploading /\ uploadProgress = NoProgress

====
